---- MODULE Spec2Model ----
(***************************************************************************)
(* Model of the robots.txt validator (src/src/validator.ts) and of the     *)
(* editor glue that calls it (src/src/index.tsx).                          *)
(*                                                                         *)
(* A JavaScript string is a sequence of characters; a character is a       *)
(* one-character TLA+ string.  Two extra atoms stand for a run of          *)
(* RunLength equal characters (SpaceRun, LetterRun), so that documents     *)
(* larger than the 500 KiB limit are inputs of the model: every string     *)
(* operation of the validator looks at character classes only, and a run   *)
(* behaves as its base character does.                                     *)
(***************************************************************************)
EXTENDS Integers, Sequences, FiniteSets, TLC

VARIABLES
  doc,            \* the text handed to validate / the editor view's document
  returned,       \* <<>> or <<report>>: the ValidationResult of the last call
  scan,           \* the scan locals (currentUserAgent, hasUserAgent) at return
  kept,           \* <<>> or <<[doc, report]>>: an earlier call, remembered
  lintResult,     \* <<>> or <<diagnostics>>: what the linter returned for doc
  output,         \* <<>> or <<text>>: what formatValidationResults returned
  mounted,        \* "no", "yes" (the effect ran, the view exists) or "destroyed"
  onValidation,   \* whether the onValidation prop was passed
  validationLog,  \* the values passed to onValidation, in call order
  changeLog       \* <<>> or <<text>>: the value last passed to onChange

vars == <<doc, returned, scan, kept, lintResult, output, mounted,
          onValidation, validationLog, changeLog>>

----------------------------------------------------------------------------
(* Characters *)

NL == "\n"
SpaceRun == "<run of spaces>"
LetterRun == "<run of x>"
Eacute == "e-acute"            \* U+00E9, one UTF-16 code unit, two UTF-8 bytes
LoneSurrogate == "lone-D800"   \* an unpaired high surrogate code unit

\* The number of characters a run atom stands for.
RunLength == 512001

Base(c) == IF c = SpaceRun THEN " " ELSE IF c = LetterRun THEN "x" ELSE c
Count(c) == IF c \in {SpaceRun, LetterRun} THEN RunLength ELSE 1

LowerChars == <<"a","b","c","d","e","f","g","h","i","j","k","l","m",
                "n","o","p","q","r","s","t","u","v","w","x","y","z">>
UpperChars == <<"A","B","C","D","E","F","G","H","I","J","K","L","M",
                "N","O","P","Q","R","S","T","U","V","W","X","Y","Z">>
DigitChars == <<"0","1","2","3","4","5","6","7","8","9">>

Range(s) == {s[i] : i \in 1..Len(s)}
Letters == Range(LowerChars) \cup Range(UpperChars)
Digits == Range(DigitChars)

DoubleQuote == "double-quote"
Backslash == "backslash"
Backtick == "backtick"
\* The characters U+0021..U+007E.
PrintableAscii ==
  Letters \cup Digits \cup
  {"!", DoubleQuote, "#", "$", "%", "&", "'", "(", ")", "*", "+", ",", "-",
   ".", "/", ":", ";", "<", "=", ">", "?", "@", "[", Backslash, "]", "^", "_",
   Backtick, "{", "|", "}", "~"}

\* What String.prototype.trim removes, within the model's alphabet.
WhiteSpace == {" ", "\t", "\r", NL}
IsWhiteSpace(c) == Base(c) \in WhiteSpace

Min(S) == CHOOSE x \in S : \A y \in S : x <= y
Max(S) == CHOOSE x \in S : \A y \in S : x >= y

----------------------------------------------------------------------------
(* String operations, with JavaScript's 0-based indices *)

TrimTo(s, keep) ==
  IF keep = {} THEN <<>> ELSE SubSeq(s, Min(keep), Max(keep))
Trim(s) == TrimTo(s, {i \in 1..Len(s) : ~IsWhiteSpace(s[i])})

Includes(s, c) == \E i \in 1..Len(s) : Base(s[i]) = c

IndexOf(s, c) ==
  IF Includes(s, c) THEN Min({i \in 1..Len(s) : Base(s[i]) = c}) - 1 ELSE -1

Substring(s, from, to) == SubSeq(s, from + 1, to)
SubstringFrom(s, from) == SubSeq(s, from + 1, Len(s))

StartsWith(s, c) == Len(s) > 0 /\ Base(s[1]) = c
EndsWith(s, c) == Len(s) > 0 /\ Base(s[Len(s)]) = c

ToLowerChar(c) ==
  IF c \in Range(UpperChars)
  THEN LowerChars[CHOOSE i \in 1..26 : UpperChars[i] = c]
  ELSE c
ToLowerCase(s) == [i \in 1..Len(s) |-> ToLowerChar(s[i])]

\* s.split(c), the first separator being at 0-based index i (-1: none).
RECURSIVE SplitAt(_, _, _)
SplitAt(s, c, i) ==
  IF i = -1 THEN <<s>>
  ELSE <<Substring(s, 0, i)>>
         \o SplitAt(SubstringFrom(s, i + 1), c,
                    IndexOf(SubstringFrom(s, i + 1), c))
SplitOn(s, c) == SplitAt(s, c, IndexOf(s, c))
Split(s) == SplitOn(s, NL)

RECURSIVE Join(_)
Join(lines) ==
  IF Len(lines) = 0 THEN <<>>
  ELSE IF Len(lines) = 1 THEN lines[1]
  ELSE lines[1] \o <<NL>> \o Join(Tail(lines))

----------------------------------------------------------------------------
(* Findings and their messages.  A message is a sequence of text pieces, so *)
(* that a message built from a template holds the directive it names.       *)

Finding(line, message, severity) ==
  [line |-> line, message |-> message, severity |-> severity]

MsgEmptyFile == <<"Robots.txt file is empty">>
MsgTooLarge ==
  <<"File exceeds 500 KiB - crawlers may stop parsing beyond this limit (RFC 9309)">>
MsgEncoding == <<"File should be UTF-8 encoded (RFC 9309)">>
MsgNoColon == <<"Invalid format: directive must contain colon separator">>
MsgNonStandard(directive) ==
  <<"'">> \o directive \o
  <<"' is not part of RFC 9309 standard (may be ignored by some crawlers)">>
MsgUnknown(directive) ==
  <<"Unknown directive '">> \o directive \o <<"' (not in RFC 9309)">>
MsgMustFollow(directive) ==
  <<"'">> \o directive \o
  <<"' must follow a user-agent directive (RFC 9309 Section 2.2.1)">>
MsgNoUserAgent ==
  <<"File must contain at least one user-agent directive (RFC 9309)">>
MsgEmptyUserAgent == <<"user-agent value cannot be empty">>
MsgUserAgentToken ==
  <<"user-agent should contain only letters, numbers, hyphens, underscores, or * (RFC 9309)">>
MsgPathSlash == <<"Path should start with / for proper matching (RFC 9309)">>
MsgPathEncoding ==
  <<"Non-ASCII characters should be percent-encoded (RFC 9309 Section 2.2.2)">>
MsgPathDollar == <<"$ should only appear at the end of the path (RFC 9309)">>
MsgSitemapEmpty == <<"sitemap URL cannot be empty">>
MsgSitemapProtocol == <<"sitemap must use HTTP or HTTPS protocol">>
MsgSitemapUrl == <<"sitemap must be a valid absolute URL">>
MsgCrawlDelayNumber == <<"crawl-delay value should be a number">>
MsgCrawlDelayNegative == <<"crawl-delay should not be negative">>

----------------------------------------------------------------------------
(* Directive names *)

UserAgent == <<"u","s","e","r","-","a","g","e","n","t">>
Disallow == <<"d","i","s","a","l","l","o","w">>
Allow == <<"a","l","l","o","w">>
Sitemap == <<"s","i","t","e","m","a","p">>
CrawlDelay == <<"c","r","a","w","l","-","d","e","l","a","y">>
RequestRate == <<"r","e","q","u","e","s","t","-","r","a","t","e">>
VisitTime == <<"v","i","s","i","t","-","t","i","m","e">>
Host == <<"h","o","s","t">>
CleanParam == <<"c","l","e","a","n","-","p","a","r","a","m">>

standardDirectives == {UserAgent, Disallow, Allow, Sitemap}
commonNonStandardDirectives ==
  {CrawlDelay, RequestRate, VisitTime, Host, CleanParam}

----------------------------------------------------------------------------
(* The platform functions the validator calls: UTF-8 encoding and decoding, *)
(* parseFloat and the URL constructor, as they behave on the model's        *)
(* alphabet.                                                                *)

\* U+0021..U+007E in code order: the character at index i has code 32 + i.
AsciiOrder ==
  <<"!", DoubleQuote, "#", "$", "%", "&", "'", "(", ")", "*", "+", ",", "-",
    ".", "/", "0","1","2","3","4","5","6","7","8","9", ":", ";", "<", "=",
    ">", "?", "@",
    "A","B","C","D","E","F","G","H","I","J","K","L","M",
    "N","O","P","Q","R","S","T","U","V","W","X","Y","Z",
    "[", Backslash, "]", "^", "_", Backtick,
    "a","b","c","d","e","f","g","h","i","j","k","l","m",
    "n","o","p","q","r","s","t","u","v","w","x","y","z",
    "{", "|", "}", "~">>

\* TextEncoder.encode of one code unit: an unpaired surrogate is first
\* replaced by U+FFFD (the string is converted to scalar values).
Utf8Encode(c) ==
  IF c = Eacute THEN <<195, 169>>
  ELSE IF c = LoneSurrogate THEN <<239, 191, 189>>
  ELSE IF c = " " THEN <<32>>
  ELSE IF c = "\t" THEN <<9>>
  ELSE IF c = NL THEN <<10>>
  ELSE IF c = "\r" THEN <<13>>
  ELSE <<32 + (CHOOSE i \in 1..Len(AsciiOrder) : AsciiOrder[i] = c)>>

RECURSIVE EncodeString(_)
EncodeString(str) ==
  IF str = <<>> THEN <<>>
  ELSE Utf8Encode(Base(Head(str))) \o EncodeString(Tail(str))

IsContinuation(b) == 128 <= b /\ b <= 191

\* TextDecoder('utf-8', {fatal: true}).decode: TRUE when it does not throw.
RECURSIVE Utf8Decodes(_)
Utf8Decodes(bytes) ==
  IF bytes = <<>> THEN TRUE
  ELSE LET b == bytes[1]
           need == IF b < 128 THEN 0
                   ELSE IF 194 <= b /\ b <= 223 THEN 1
                   ELSE IF 224 <= b /\ b <= 239 THEN 2
                   ELSE IF 240 <= b /\ b <= 244 THEN 3
                   ELSE -1
       IN /\ need >= 0
          /\ Len(bytes) >= 1 + need
          /\ \A k \in 2..(1 + need) : IsContinuation(bytes[k])
          /\ (b = 224 => bytes[2] >= 160)
          /\ (b = 237 => bytes[2] <= 159)
          /\ (b = 240 => bytes[2] >= 144)
          /\ (b = 244 => bytes[2] <= 143)
          /\ Utf8Decodes(SubSeq(bytes, 2 + need, Len(bytes)))

\* A run repeats one well-formed encoding, so its base character is encoded
\* once for the decoder and counted RunLength times for the size.
isValidUtf8(str) == Utf8Decodes(EncodeString(str))

RECURSIVE BlobSize(_)
BlobSize(str) ==
  IF str = <<>> THEN 0
  ELSE Count(Head(str)) * Len(Utf8Encode(Base(Head(str)))) + BlobSize(Tail(str))

SizeLimit == 500 * 1024

\* The length of the longest prefix of s made of characters of set.
PrefixIn(s, set) ==
  Min({i \in 1..(Len(s) + 1) : i = Len(s) + 1 \/ s[i] \notin set}) - 1

Infinity == <<"I","n","f","i","n","i","t","y">>

\* parseFloat(value): whether the result is NaN and whether it is < 0.  The
\* longest prefix that is a decimal literal is read; the mantissa decides the
\* sign of the result (-0 is not < 0), an exponent is read and leaves it alone.
ParseDigits(digits, minus) ==
  [isNaN |-> digits = <<>>,
   negative |-> minus /\ \E i \in 1..Len(digits) : digits[i] # "0"]

FractionDigits(afterInt) ==
  IF StartsWith(afterInt, ".")
  THEN Substring(afterInt, 1, 1 + PrefixIn(Tail(afterInt), Digits))
  ELSE <<>>

ParseMantissa(body, intLen, minus) ==
  ParseDigits(Substring(body, 0, intLen)
                \o FractionDigits(SubstringFrom(body, intLen)), minus)

ParseLiteral(body, minus) ==
  IF Len(body) >= 8 /\ SubSeq(body, 1, 8) = Infinity
  THEN [isNaN |-> FALSE, negative |-> minus]
  ELSE ParseMantissa(body, PrefixIn(body, Digits), minus)

ParseSigned(s) ==
  IF Len(s) > 0 /\ s[1] \in {"+", "-"}
  THEN ParseLiteral(Tail(s), s[1] = "-")
  ELSE ParseLiteral(s, FALSE)

ParseFloat(value) ==
  ParseSigned(SubstringFrom(value, PrefixIn(value, WhiteSpace \cup {SpaceRun})))

----------------------------------------------------------------------------
(* new URL(value) with no base: the scheme of the parsed URL, or a throw.  *)
(* The model follows the URL standard's states for the characters of the   *)
(* model's alphabet; IPv6 literals, percent-escapes in hosts and Windows   *)
(* drive letters are outside it.                                           *)

Http == <<"h","t","t","p">>
Https == <<"h","t","t","p","s">>
Ftp == <<"f","t","p">>
Ws == <<"w","s">>
Wss == <<"w","s","s">>
File == <<"f","i","l","e">>
SpecialSchemes == {Http, Https, Ftp, Ws, Wss, File}

SchemeChars == Letters \cup Digits \cup {"+", "-", "."}
Slashes == {"/", Backslash}
HexDigitChars == Digits \cup {"a","b","c","d","e","f","A","B","C","D","E","F"}
ForbiddenHostChars ==
  {" ", "\t", NL, "\r", "#", "/", ":", "<", ">", "?", "@", "[", Backslash, "]",
   "^", "|"}
ForbiddenDomainChars == ForbiddenHostChars \cup {"%", LoneSurrogate}

BaseString(s) == [i \in 1..Len(s) |-> Base(s[i])]

\* The input with the tabs and newlines the parser removes taken out.
UrlInput(value) ==
  SelectSeq(value, LAMBDA c : c \notin {"\t", NL, "\r"})

\* The 0-based index of the colon that ends a valid scheme, or -1.
SchemeEnd(v) ==
  LET i == IndexOf(v, ":")
  IN IF /\ i >= 1
        /\ Base(v[1]) \in Letters
        /\ \A k \in 2..i : Base(v[k]) \in SchemeChars
     THEN i ELSE -1

\* The prefix of s before its first character of set.
Before(s, set) ==
  LET stops == {i \in 1..Len(s) : Base(s[i]) \in set}
  IN IF stops = {} THEN s ELSE SubSeq(s, 1, Min(stops) - 1)

DigitValue(c) ==
  IF c \in Digits THEN (CHOOSE i \in 1..10 : DigitChars[i] = c) - 1
  ELSE IF c \in Range(LowerChars) THEN 9 + (CHOOSE i \in 1..26 : LowerChars[i] = c)
  ELSE 9 + (CHOOSE i \in 1..26 : UpperChars[i] = c)

\* A number as <<high, low>> 16-bit halves, high saturating at 65536: the
\* number is below 2^32 iff high < 65536.
Halves(high, low) ==
  <<IF high + (low \div 65536) > 65536 THEN 65536 ELSE high + (low \div 65536),
    low % 65536>>

\* The value of a digit string in a radix, added to acc.
RECURSIVE NumberValue(_, _, _)
NumberValue(digits, radix, acc) ==
  IF digits = <<>> THEN acc
  ELSE NumberValue(Tail(digits), radix,
                   Halves(acc[1] * radix, acc[2] * radix + DigitValue(digits[1])))

ParseRadix(digits, radix, allowed) ==
  IF \E i \in 1..Len(digits) : digits[i] \notin allowed THEN <<>>
  ELSE <<NumberValue(digits, radix, <<0, 0>>)>>

\* The IPv4 number parser: <<>> on failure, else <<<<high, low>>>>.
ParseIPv4Number(part) ==
  IF part = <<>> THEN <<>>
  ELSE IF Len(part) >= 2 /\ part[1] = "0" /\ part[2] \in {"x", "X"}
    THEN ParseRadix(SubSeq(part, 3, Len(part)), 16, HexDigitChars)
  ELSE IF Len(part) >= 2 /\ part[1] = "0"
    THEN ParseRadix(Tail(part), 8, {"0","1","2","3","4","5","6","7"})
  ELSE ParseRadix(part, 10, Digits)

\* A domain's parts, the empty part after a final dot dropped.
DropFinalEmpty(parts) ==
  IF Len(parts) > 1 /\ parts[Len(parts)] = <<>>
  THEN SubSeq(parts, 1, Len(parts) - 1) ELSE parts
HostParts(host) == DropFinalEmpty(SplitOn(host, "."))

IsNumberPart(last) ==
  /\ last # <<>>
  /\ \/ \A i \in 1..Len(last) : last[i] \in Digits
     \/ ParseIPv4Number(last) # <<>>
EndsInNumber(parts) == IsNumberPart(parts[Len(parts)])

\* The number fits the bytes of the address left for it.
FitsBytes(halves, bytes) ==
  CASE bytes = 4 -> halves[1] < 65536
    [] bytes = 3 -> halves[1] < 256
    [] bytes = 2 -> halves[1] = 0
    [] OTHER -> halves[1] = 0 /\ halves[2] <= 255
PartInRange(number, bytes) == number # <<>> /\ FitsBytes(number[1], bytes)

IPv4Parses(parts) ==
  /\ Len(parts) <= 4
  /\ \A i \in 1..Len(parts) :
       PartInRange(ParseIPv4Number(parts[i]),
                   IF i = Len(parts) THEN 5 - Len(parts) ELSE 1)

NumericHostParses(parts) == EndsInNumber(parts) => IPv4Parses(parts)

\* The host parser on a special scheme's host: TRUE when it does not fail.
DomainParses(host) ==
  /\ host # <<>>
  /\ \A i \in 1..Len(host) : Base(host[i]) \notin ForbiddenDomainChars
  /\ NumericHostParses(HostParts(host))

OpaqueHostParses(host) ==
  \A i \in 1..Len(host) : Base(host[i]) \notin ForbiddenHostChars

PortParses(port) ==
  /\ \A i \in 1..Len(port) : port[i] \in Digits
  /\ NumberValue(port, 10, <<0, 0>>)[1] = 0

HostParses(host, credentials, special) ==
  /\ credentials => host # <<>>
  /\ IF special THEN DomainParses(host) ELSE OpaqueHostParses(host)

HostPortParses(hostport, colon, credentials, special) ==
  IF colon = -1 THEN HostParses(hostport, credentials, special)
  ELSE /\ HostParses(Substring(hostport, 0, colon), credentials, special)
       /\ PortParses(SubstringFrom(hostport, colon + 1))

\* The authority without its credentials (the text up to the last @).
AfterCredentials(authority) ==
  IF ~Includes(authority, "@") THEN authority
  ELSE SubstringFrom(authority,
                     Max({i \in 1..Len(authority) : authority[i] = "@"}))

HostAndPort(hostport, credentials, special) ==
  HostPortParses(hostport, IndexOf(hostport, ":"), credentials, special)

\* The authority (credentials@host:port) of a URL: TRUE when it parses.
AuthorityParses(authority, special) ==
  HostAndPort(AfterCredentials(authority), Includes(authority, "@"), special)

\* What follows the scheme's colon parses; slashes counts its leading
\* slashes and backslashes.
RestParses(scheme, rest, slashes) ==
  IF scheme = File
    THEN \/ slashes < 2
         \/ Before(SubstringFrom(rest, 2), {"/", "?", "#", Backslash}) = <<>>
         \/ DomainParses(Before(SubstringFrom(rest, 2), {"/", "?", "#", Backslash}))
  ELSE IF scheme \in SpecialSchemes
    THEN AuthorityParses(Before(SubstringFrom(rest, slashes),
                                {"/", "?", "#", Backslash}), TRUE)
  ELSE \/ ~(Len(rest) >= 2 /\ rest[1] = "/" /\ rest[2] = "/")
       \/ AuthorityParses(Before(SubstringFrom(rest, 2), {"/", "?", "#"}), FALSE)

ParseWithScheme(scheme, rest) ==
  IF RestParses(scheme, rest, PrefixIn(BaseString(rest), Slashes))
  THEN <<scheme>> ELSE <<>>

ParseAfterScheme(v, end) ==
  IF end = -1 THEN <<>>
  ELSE ParseWithScheme(ToLowerCase(BaseString(Substring(v, 0, end))),
                       SubstringFrom(v, end + 1))

\* <<>> when new URL(value) throws, else <<scheme>> (url.protocol without
\* its colon).
ParseUrl(value) == ParseAfterScheme(UrlInput(value), SchemeEnd(UrlInput(value)))

----------------------------------------------------------------------------
(* RobotsTxtValidator.  The accumulator of one validate call holds the two  *)
(* arrays the call fills and its two scan locals.                           *)

NoUserAgent == [isNull |-> TRUE, value |-> <<>>]
SomeUserAgent(value) == [isNull |-> FALSE, value |-> value]
\* !currentUserAgent: null and the empty string are both falsy.
Falsy(optional) == optional.isNull \/ optional.value = <<>>

PushError(acc, line, message) ==
  [acc EXCEPT !.errors = Append(@, Finding(line, message, "error"))]
PushWarning(acc, line, message) ==
  [acc EXCEPT !.warnings = Append(@, Finding(line, message, "warning"))]

TokenChars == Letters \cup Digits \cup {"_", "-", "*"}

validateUserAgent(acc, value, line) ==
  IF value = <<>> THEN PushError(acc, line, MsgEmptyUserAgent)
  ELSE IF \E i \in 1..Len(value) : Base(value[i]) \notin TokenChars
  THEN PushWarning(acc, line, MsgUserAgentToken)
  ELSE acc

\* The three checks of validatePath, each on the warnings of the one before.
PathSlash(acc, value, line) ==
  IF value # <<>> /\ ~StartsWith(value, "/")
  THEN PushWarning(acc, line, MsgPathSlash) ELSE acc
PathEncoding(acc, value, line) ==
  IF \E i \in 1..Len(value) : Base(value[i]) \notin PrintableAscii
  THEN PushWarning(acc, line, MsgPathEncoding) ELSE acc
PathDollar(acc, value, line) ==
  IF Includes(value, "$") /\ ~EndsWith(value, "$")
  THEN PushWarning(acc, line, MsgPathDollar) ELSE acc

validatePath(acc, directive, value, line) ==
  IF directive = Disallow /\ value = <<>> THEN acc
  ELSE PathDollar(PathEncoding(PathSlash(acc, value, line), value, line),
                  value, line)

\* The try block of validateSitemap, url being what new URL(value) gave.
SitemapUrl(acc, url, line) ==
  IF url = <<>> THEN PushError(acc, line, MsgSitemapUrl)
  ELSE IF url[1] \notin {Http, Https}
  THEN PushError(acc, line, MsgSitemapProtocol)
  ELSE acc

validateSitemap(acc, value, line) ==
  IF value = <<>> THEN PushError(acc, line, MsgSitemapEmpty)
  ELSE SitemapUrl(acc, ParseUrl(value), line)

\* The checks of validateCrawlDelay on delay = parseFloat(value).
CrawlDelayValue(acc, delay, line) ==
  IF delay.isNaN THEN PushWarning(acc, line, MsgCrawlDelayNumber)
  ELSE IF delay.negative THEN PushWarning(acc, line, MsgCrawlDelayNegative)
  ELSE acc

validateCrawlDelay(acc, value, line) ==
  CrawlDelayValue(acc, ParseFloat(value), line)

\* LineNumber without the step from 0-based index to 1-based line.
LineNumberZeroBased(index) == index

\* content.split('\n') index to reported line number.
LineNumber(index) == index + 1

\* InitialScanState taken from what the previous call left behind.
CarriedScanState == scan

\* The scan locals as declared at the start of the line scan.
InitialScanState == [currentUserAgent |-> NoUserAgent, hasUserAgent |-> FALSE]

\* ClassifyDirective reporting an unrecognised directive as an Error.
ClassifyUnknownAsError(acc, directive, line) ==
  IF directive \in standardDirectives THEN acc
  ELSE IF directive \in commonNonStandardDirectives
  THEN PushWarning(acc, line, MsgNonStandard(directive))
  ELSE PushError(acc, line, MsgUnknown(directive))

\* The classification warning of a directive outside the standard set.
ClassifyDirective(acc, directive, line) ==
  IF directive \in standardDirectives THEN acc
  ELSE IF directive \in commonNonStandardDirectives
  THEN PushWarning(acc, line, MsgNonStandard(directive))
  ELSE PushWarning(acc, line, MsgUnknown(directive))

\* RecordUserAgent recording only a user-agent line whose value is not empty.
RecordValidUserAgent(acc, value) ==
  IF value = <<>> THEN acc
  ELSE [acc EXCEPT !.currentUserAgent = SomeUserAgent(value),
                   !.hasUserAgent = TRUE]

\* The scan-state update after a user-agent line.
RecordUserAgent(acc, value) ==
  [acc EXCEPT !.currentUserAgent = SomeUserAgent(value), !.hasUserAgent = TRUE]

\* The switch on the directive name.
DispatchDirective(acc, directive, value, line) ==
  IF directive = UserAgent
    THEN RecordUserAgent(validateUserAgent(acc, value, line), value)
  ELSE IF directive \in {Disallow, Allow}
    THEN IF Falsy(acc.currentUserAgent)
         THEN PushError(acc, line, MsgMustFollow(directive))
         ELSE validatePath(acc, directive, value, line)
  ELSE IF directive = Sitemap THEN validateSitemap(acc, value, line)
  ELSE IF directive = CrawlDelay THEN validateCrawlDelay(acc, value, line)
  ELSE acc

\* The classification and the switch for a line's directive and value.
ScanDirective(acc, directive, value, lineNumber) ==
  DispatchDirective(ClassifyDirective(acc, directive, lineNumber),
                    directive, value, lineNumber)

\* The line split at its first colon.
ScanColon(acc, trimmedLine, colonIndex, lineNumber) ==
  ScanDirective(acc,
                ToLowerCase(Trim(Substring(trimmedLine, 0, colonIndex))),
                Trim(SubstringFrom(trimmedLine, colonIndex + 1)),
                lineNumber)

\* The body of lines.forEach from the trimmed line on.
ScanTrimmed(acc, trimmedLine, lineNumber) ==
  IF trimmedLine = <<>> \/ StartsWith(trimmedLine, "#") THEN acc
  ELSE IF ~Includes(trimmedLine, ":")
  THEN PushError(acc, lineNumber, MsgNoColon)
  ELSE ScanColon(acc, trimmedLine, IndexOf(trimmedLine, ":"), lineNumber)

\* The body of lines.forEach for one line.
ScanLine(acc, line, index) == ScanTrimmed(acc, Trim(line), LineNumber(index))

RECURSIVE ScanLines(_, _, _)
ScanLines(acc, lines, index) ==
  IF index = Len(lines) THEN acc
  ELSE ScanLines(ScanLine(acc, lines[index + 1], index), lines, index + 1)

\* IsEmptyContent without the trim.
IsEmptyContentUntrimmed(content) == content = <<>>

\* !content || content.trim().length === 0
IsEmptyContent(content) == content = <<>> \/ Len(Trim(content)) = 0

\* The warnings of the size and encoding checks.
DocumentWarnings(content) ==
  (IF BlobSize(content) > SizeLimit
   THEN <<Finding(0, MsgTooLarge, "warning")>> ELSE <<>>)
  \o (IF ~isValidUtf8(content)
      THEN <<Finding(0, MsgEncoding, "warning")>> ELSE <<>>)

\* The accumulator after the line scan.
Scanned(content) ==
  ScanLines([errors |-> <<>>,
             warnings |-> DocumentWarnings(content),
             currentUserAgent |-> InitialScanState.currentUserAgent,
             hasUserAgent |-> InitialScanState.hasUserAgent],
            Split(content), 0)

\* PostScan putting its Error ahead of the per-line errors.
PostScanFirst(acc) ==
  IF ~acc.hasUserAgent
  THEN [acc EXCEPT !.errors = <<Finding(0, MsgNoUserAgent, "error")>> \o @]
  ELSE acc

\* The check after the scan that some user-agent line was seen.
PostScan(acc) ==
  IF ~acc.hasUserAgent THEN PushError(acc, 0, MsgNoUserAgent) ELSE acc

\* Result with warnings counted against validity.
ResultCountingWarnings(errors, warnings) ==
  [isValid |-> Len(errors) = 0 /\ Len(warnings) = 0,
   errors |-> errors, warnings |-> warnings]

\* The object validate returns.
Result(errors, warnings) ==
  [isValid |-> Len(errors) = 0, errors |-> errors, warnings |-> warnings]

\* The return statement at the end of validate.
Returned(acc) == Result(acc.errors, acc.warnings)

validate(content) ==
  IF IsEmptyContent(content)
  THEN [isValid |-> FALSE,
        errors |-> <<Finding(0, MsgEmptyFile, "error")>>,
        warnings |-> <<>>]
  ELSE Returned(PostScan(Scanned(content)))

\* The two scan locals of an accumulator.
LocalsOf(acc) ==
  [currentUserAgent |-> acc.currentUserAgent, hasUserAgent |-> acc.hasUserAgent]

\* The scan locals when validate returns (as declared when it returns early).
ScanLocals(content) ==
  IF IsEmptyContent(content) THEN InitialScanState
  ELSE LocalsOf(Scanned(content))

validateRobotsTxt(content) == validate(content)

----------------------------------------------------------------------------
(* The editor's linter (index.tsx).  CodeMirror's Text counts one line per  *)
(* line break plus one, and numbers lines and offsets from the document     *)
(* text that doc.toString() returns.                                        *)

DocLines(content) == Cardinality({i \in 1..Len(content) : content[i] = NL}) + 1

RECURSIVE TextLength(_)
TextLength(s) == IF s = <<>> THEN 0 ELSE Count(Head(s)) + TextLength(Tail(s))

\* doc.line(n).from: the offset of the first character of line n.
RECURSIVE LineFrom(_, _)
LineFrom(lines, n) ==
  IF n = 1 THEN 0 ELSE LineFrom(lines, n - 1) + TextLength(lines[n - 1]) + 1

\* The diagnostic of one finding placed on a line of the document.
Diagnostic(message, severity, lines, docLines, line) ==
  IF line <= docLines
  THEN <<[from |-> LineFrom(lines, line),
          to |-> LineFrom(lines, line) + TextLength(lines[line]),
          severity |-> severity,
          message |-> message]>>
  ELSE <<>>

\* One forEach of the linter: the diagnostics of a list of findings.
RECURSIVE Diagnose(_, _, _, _)
Diagnose(findings, severity, lines, docLines) ==
  IF findings = <<>> THEN <<>>
  ELSE Diagnostic(Head(findings).message, severity, lines, docLines,
                  IF Head(findings).line > 0 THEN Head(findings).line ELSE 1)
         \o Diagnose(Tail(findings), severity, lines, docLines)

\* The two forEach loops over the result of the validation.
DiagnoseResult(result, lines, docLines) ==
  Diagnose(result.errors, "error", lines, docLines)
    \o Diagnose(result.warnings, "warning", lines, docLines)

robotsTxtLinter(content) ==
  DiagnoseResult(validateRobotsTxt(content), Split(content), DocLines(content))

----------------------------------------------------------------------------
(* formatValidationResults.  The returned text is a sequence of pieces: the *)
(* literal texts, the digits of the line numbers, the pieces of the         *)
(* messages, and NL for each newline.                                       *)

MsgSuccess == <<"Valid robots.txt (RFC 9309 compliant)">>

\* String(n) for a non-negative integer.
RECURSIVE ToDecimal(_)
ToDecimal(n) ==
  IF n < 10 THEN <<DigitChars[n + 1]>>
  ELSE ToDecimal(n \div 10) \o <<DigitChars[(n % 10) + 1]>>

FormatEntry(finding) ==
  <<"  Line ">> \o ToDecimal(finding.line) \o <<": ">> \o finding.message
    \o <<NL>>

RECURSIVE FormatEntries(_)
FormatEntries(findings) ==
  IF findings = <<>> THEN <<>>
  ELSE FormatEntry(Head(findings)) \o FormatEntries(Tail(findings))

\* SectionSeparator that does not look at what was written before.
SectionSeparatorAlways(written) == <<NL>>

\* if (output) output += '\n'
SectionSeparator(written) == IF written # <<>> THEN <<NL>> ELSE <<>>

formatValidationResults(result) ==
  IF result.isValid /\ Len(result.warnings) = 0 THEN MsgSuccess
  ELSE LET errorSection ==
             IF Len(result.errors) > 0
             THEN <<"Errors:", NL>> \o FormatEntries(result.errors)
             ELSE <<>>
       IN IF Len(result.warnings) > 0
          THEN errorSection \o SectionSeparator(errorSection)
                 \o <<"Warnings:", NL>> \o FormatEntries(result.warnings)
          ELSE errorSection


----------------------------------------------------------------------------
(* Inputs *)

Line(directive, value) == directive \o <<":">> \o value

\* The lines every longer document is built from.
CoreLines ==
  { <<>>,
    Line(UserAgent, <<"*">>),
    Line(UserAgent, <<>>),
    Line(Disallow, <<"/">>),
    <<"x">>,
    Line(Sitemap, <<"x">>) }

AllLines ==
  CoreLines \cup
  { <<SpaceRun>>,
    <<"#", LetterRun>>,
    <<"#">> \o Line(UserAgent, <<"*">>),
    <<"U","s","e","r","-","A","g","e","n","t"," ",":"," ","x">>,
    Line(UserAgent, <<LoneSurrogate>>),
    Line(Disallow, <<>>),
    Line(Allow, <<>>),
    Line(Allow, <<Eacute,"$","y">>),
    Line(Disallow, <<"/","$","x","$">>),
    Line(Sitemap, <<>>),
    Line(Sitemap, <<"h","t","t","p","s",":","/","/","a">>),
    Line(Sitemap, <<"f","t","p",":","/","/","a">>),
    Line(CrawlDelay, <<"-","1">>),
    Line(CrawlDelay, <<"x">>),
    Line(Host, <<"x">>),
    <<":", "x">> }

MaxLines == 2
MaxCoreLines == 3

\* The sequences of at most n members of set.
SeqsUpTo(set, n) == UNION {[1..k -> set] : k \in 0..n}

DocsOver(lines, n) == {Join(ls) : ls \in SeqsUpTo(lines, n)}

Inputs == DocsOver(AllLines, MaxLines) \cup DocsOver(CoreLines, MaxCoreLines)

----------------------------------------------------------------------------
(* Spec: one document, validated by validateRobotsTxt and linted by the    *)
(* editor's linter.                                                         *)

\* The value of scan while no call has returned.
NoScan == [currentUserAgent |-> NoUserAgent, hasUserAgent |-> FALSE]

Init ==
  /\ doc \in Inputs
  /\ returned = <<>>
  /\ scan = NoScan
  /\ kept = <<>>
  /\ lintResult = <<>>
  /\ output = <<>>
  /\ mounted = "no"
  /\ onValidation = FALSE
  /\ validationLog = <<>>
  /\ changeLog = <<>>

ValidateCall ==
  /\ returned = <<>>
  /\ returned' = <<validateRobotsTxt(doc)>>
  /\ scan' = ScanLocals(doc)
  /\ UNCHANGED <<doc, kept, lintResult, output, mounted, onValidation,
                 validationLog, changeLog>>

LinterRun ==
  /\ lintResult = <<>>
  /\ lintResult' = <<robotsTxtLinter(doc)>>
  /\ UNCHANGED <<doc, returned, scan, kept, output, mounted, onValidation,
                 validationLog, changeLog>>

Next == ValidateCall \/ LinterRun

Spec == Init /\ [][Next]_vars

----------------------------------------------------------------------------
(* What the properties speak of, read off the document and the report      *)
(* rather than off the scan.                                                *)

Report == returned[1]
Segments == Split(doc)
SegmentCount == Len(Segments)

\* The document has no character other than white space.
Blank(text) == \A i \in 1..Len(text) : IsWhiteSpace(text[i])

\* A line the scan looks at: not blank and not a comment.
IsScanned(line) == Trim(line) # <<>> /\ ~StartsWith(Trim(line), "#")
HasColon(line) == Includes(line, ":")

\* The trimmed, lower-cased text before the first colon, and the trimmed
\* text after it.
NameOf(line) == ToLowerCase(Trim(Before(Trim(line), {":"})))
ValueOf(line) ==
  Trim(SubstringFrom(Trim(line), Len(Before(Trim(line), {":"})) + 1))

HasName(line, names) == HasColon(line) /\ NameOf(line) \in names
IsDirectiveLine(line) == IsScanned(line) /\ HasColon(line)

FindingsAt(findings, k) == SelectSeq(findings, LAMBDA f : f.line = k)
Messages(findings) == {findings[i].message : i \in 1..Len(findings)}
PathMessages == {MsgPathSlash, MsgPathEncoding, MsgPathDollar}

\* C1 (as stated): a disallow or allow line gets the 'must follow a
\* user-agent directive' Error iff no user-agent line appears on an earlier
\* line, whatever that line's value; with the Error it gets no path finding.
C1_MustFollowIffNoEarlierUserAgent ==
  returned # <<>> =>
    \A k \in 1..SegmentCount :
      (IsDirectiveLine(Segments[k]) /\ NameOf(Segments[k]) \in {Disallow, Allow}) =>
        LET flagged == MsgMustFollow(NameOf(Segments[k]))
                         \in Messages(FindingsAt(Report.errors, k))
        IN /\ flagged <=>
                ~\E j \in 1..(k - 1) : HasName(Segments[j], {UserAgent})
           /\ flagged =>
                Messages(FindingsAt(Report.warnings, k)) \cap PathMessages = {}

\* C2: isValid is exactly 'errors is empty', errors hold only severity
\* 'error' and warnings only severity 'warning'.
C2_ValidIffNoErrors ==
  returned # <<>> =>
    /\ Report.isValid = (Report.errors = <<>>)
    /\ \A i \in 1..Len(Report.errors) : Report.errors[i].severity = "error"
    /\ \A i \in 1..Len(Report.warnings) : Report.warnings[i].severity = "warning"

\* C2 witness: a report that is valid although it holds warnings.
C2_Witness ==
  returned # <<>> /\ Report.isValid /\ Len(Report.warnings) >= 2

\* Line-0 findings first, then per-line findings by non-decreasing line.
DocumentFirst(findings) ==
  \A i, j \in 1..Len(findings) :
    i < j => (findings[j].line = 0 => findings[i].line = 0)
PerLineAscending(findings) ==
  \A i, j \in 1..Len(findings) :
    (i < j /\ findings[i].line >= 1 /\ findings[j].line >= 1)
      => findings[i].line <= findings[j].line

\* C3 (as stated): in errors and in warnings, all line-0 findings come before
\* all per-line findings, and per-line findings are in non-decreasing order.
C3_DocumentLevelFirst ==
  returned # <<>> =>
    /\ DocumentFirst(Report.errors) /\ PerLineAscending(Report.errors)
    /\ DocumentFirst(Report.warnings) /\ PerLineAscending(Report.warnings)

\* C3 (amended): warnings are line-0 first; per-line findings of both
\* sequences are in non-decreasing line order; a line-0 error is the last
\* element of errors.
C3_LineZeroErrorLast ==
  returned # <<>> =>
    /\ DocumentFirst(Report.warnings) /\ PerLineAscending(Report.warnings)
    /\ PerLineAscending(Report.errors)
    /\ \A i \in 1..Len(Report.errors) :
         Report.errors[i].line = 0 => i = Len(Report.errors)

\* C3 witness: per-line errors of two lines followed by the line-0 error.
C3_Witness ==
  /\ returned # <<>>
  /\ Len(Report.errors) >= 3
  /\ Report.errors[1].line >= 1
  /\ Report.errors[1].line < Report.errors[Len(Report.errors) - 1].line
  /\ Report.errors[Len(Report.errors)].line = 0

\* C4: blank content returns exactly the empty-file Error at line 0, no
\* warning and isValid false, whatever its size.
C4_BlankContentShortCircuits ==
  (returned # <<>> /\ Blank(doc)) =>
    Report = [isValid |-> FALSE,
              errors |-> <<Finding(0, MsgEmptyFile, "error")>>,
              warnings |-> <<>>]

\* C4 witness: a white-space document above the size limit was validated.
C4_Witness ==
  returned # <<>> /\ Blank(doc) /\ doc # <<>> /\ BlobSize(doc) > SizeLimit

\* C5: for content that is not blank, the line-0 missing-user-agent Error is
\* present (once) iff no line has the directive name user-agent.
C5_MissingUserAgentIffNoUserAgentLine ==
  (returned # <<>> /\ ~Blank(doc)) =>
    Len(SelectSeq(Report.errors,
                  LAMBDA f : f = Finding(0, MsgNoUserAgent, "error")))
      = IF \E k \in 1..SegmentCount : HasName(Segments[k], {UserAgent})
        THEN 0 ELSE 1

\* C5 witness: the only user-agent lines have an empty or malformed value.
C5_Witness ==
  /\ returned # <<>>
  /\ \E k \in 1..SegmentCount : HasName(Segments[k], {UserAgent})
  /\ \A k \in 1..SegmentCount :
       HasName(Segments[k], {UserAgent}) =>
         (ValueOf(Segments[k]) = <<>> \/ ValueOf(Segments[k]) = <<LoneSurrogate>>)
  /\ MsgNoUserAgent \notin Messages(Report.errors)

DocumentMessages == {MsgEmptyFile, MsgTooLarge, MsgEncoding, MsgNoUserAgent}

\* The finding is one the scan of this line can emit.
ProducedFrom(finding, line) ==
  /\ IsScanned(line)
  /\ IF finding.message = MsgNoColon THEN ~HasColon(line)
     ELSE IF finding.message \in {MsgEmptyUserAgent, MsgUserAgentToken}
       THEN HasName(line, {UserAgent})
     ELSE IF finding.message \in PathMessages
       THEN HasName(line, {Disallow, Allow})
     ELSE IF finding.message \in {MsgSitemapEmpty, MsgSitemapUrl, MsgSitemapProtocol}
       THEN HasName(line, {Sitemap})
     ELSE IF finding.message \in {MsgCrawlDelayNumber, MsgCrawlDelayNegative}
       THEN HasName(line, {CrawlDelay})
     ELSE /\ HasColon(line)
          /\ finding.message \in {MsgMustFollow(NameOf(line)),
                                  MsgNonStandard(NameOf(line)),
                                  MsgUnknown(NameOf(line))}

AllFindings == Report.errors \o Report.warnings

\* C6: every finding has line 0 (document scope) or a line k in 1..N, N the
\* number of segments of the split on newline, and was produced from segment
\* k; the linter turns every finding into exactly one diagnostic, in order.
C6_LinesWithinDocument ==
  /\ returned # <<>> =>
       \A i \in 1..Len(AllFindings) :
         LET finding == AllFindings[i]
         IN /\ finding.line \in 0..SegmentCount
            /\ finding.line = 0 => finding.message \in DocumentMessages
            /\ finding.line >= 1 => ProducedFrom(finding, Segments[finding.line])
  /\ (returned # <<>> /\ lintResult # <<>>) =>
       /\ Len(lintResult[1]) = Len(AllFindings)
       /\ \A i \in 1..Len(AllFindings) :
            /\ lintResult[1][i].message = AllFindings[i].message
            /\ lintResult[1][i].severity = AllFindings[i].severity
            /\ lintResult[1][i].from <= lintResult[1][i].to

\* C6 witness: validated and linted, with a finding on the last of several
\* lines and a document-scope finding.
C6_Witness ==
  /\ returned # <<>> /\ lintResult # <<>>
  /\ SegmentCount >= 2
  /\ \E i, j \in 1..Len(AllFindings) :
       AllFindings[i].line = SegmentCount /\ AllFindings[j].line = 0
  /\ Len(lintResult[1]) >= 2

\* The warnings the crawl-delay value check adds for a value.
CrawlDelayWarnings(value) ==
  IF ParseFloat(value).isNaN THEN <<MsgCrawlDelayNumber>>
  ELSE IF ParseFloat(value).negative THEN <<MsgCrawlDelayNegative>>
  ELSE <<>>

MessageSeq(findings) == [i \in 1..Len(findings) |-> findings[i].message]

\* C7: a scanned line with a colon whose directive is outside the standard
\* set adds exactly one classification Warning at its line and no Error; for
\* crawl-delay the value check's Warning follows it.
C7_NonStandardWarnsOnce ==
  returned # <<>> =>
    \A k \in 1..SegmentCount :
      (IsDirectiveLine(Segments[k]) /\ NameOf(Segments[k]) \notin standardDirectives) =>
        LET name == NameOf(Segments[k])
            classification ==
              IF name \in commonNonStandardDirectives
              THEN MsgNonStandard(name) ELSE MsgUnknown(name)
        IN /\ FindingsAt(Report.errors, k) = <<>>
           /\ MessageSeq(FindingsAt(Report.warnings, k))
                = <<classification>>
                    \o (IF name = CrawlDelay
                        THEN CrawlDelayWarnings(ValueOf(Segments[k])) ELSE <<>>)

\* C7 witness: a crawl-delay line whose value is not a number got both the
\* classification Warning and the value Warning.
C7_Witness ==
  /\ returned # <<>>
  /\ \E k \in 1..SegmentCount :
       /\ IsDirectiveLine(Segments[k])
       /\ NameOf(Segments[k]) = CrawlDelay
       /\ MessageSeq(FindingsAt(Report.warnings, k))
            = <<MsgNonStandard(CrawlDelay), MsgCrawlDelayNumber>>

\* Line k is a disallow or allow directive line whose nearest earlier
\* user-agent line carries a value, so that validatePath is called for it.
IsPathLine(k) ==
  /\ IsDirectiveLine(Segments[k])
  /\ NameOf(Segments[k]) \in {Disallow, Allow}
  /\ \E j \in 1..(k - 1) :
       /\ HasName(Segments[j], {UserAgent})
       /\ ValueOf(Segments[j]) # <<>>
       /\ \A i \in (j + 1)..(k - 1) : ~HasName(Segments[i], {UserAgent})

\* The value has a '$' at a position other than its last.
DollarBeforeEnd(value) == \E i \in 1..(Len(value) - 1) : value[i] = "$"

\* C11 (as stated): a disallow or allow line after a user-agent directive,
\* with a non-empty value, gets the '$ should only appear at the end of the
\* path' Warning iff its value has a '$' at a position other than the last,
\* a value that also ends with '$' included.
C11_DollarWarningIffBeforeEnd ==
  returned # <<>> =>
    \A k \in 1..SegmentCount :
      (IsPathLine(k) /\ ValueOf(Segments[k]) # <<>>) =>
        (MsgPathDollar \in Messages(FindingsAt(Report.warnings, k))
           <=> DollarBeforeEnd(ValueOf(Segments[k])))

\* C12 (as stated): after a user-agent directive, a disallow line with an
\* empty value gets no finding, and an allow line with an empty value gets
\* at least one finding.
C12_EmptyValueValidOnlyForDisallow ==
  returned # <<>> =>
    \A k \in 1..SegmentCount :
      (IsPathLine(k) /\ ValueOf(Segments[k]) = <<>>) =>
        ((NameOf(Segments[k]) = Disallow)
           <=> FindingsAt(AllFindings, k) = <<>>)

\* U+FFFD, the character an unpaired surrogate is encoded as.
ReplacementChar == "U+FFFD"

\* The characters whose encodings the decoder reads back as themselves.
ScalarChars == Range(AsciiOrder) \cup WhiteSpace \cup {Eacute}

\* The number of bytes of the sequence a lead byte starts.
SequenceLength(b) ==
  IF b < 128 THEN 1 ELSE IF b <= 223 THEN 2 ELSE IF b <= 239 THEN 3 ELSE 4

\* The character of one well-formed byte sequence.
DecodeSequence(bytes) ==
  IF \E c \in ScalarChars : Utf8Encode(c) = bytes
  THEN CHOOSE c \in ScalarChars : Utf8Encode(c) = bytes
  ELSE IF bytes = <<239, 191, 189>> THEN ReplacementChar
  ELSE "other"

\* TextDecoder.decode on bytes it does not reject: the decoded characters.
RECURSIVE Utf8Decode(_)
Utf8Decode(bytes) ==
  IF bytes = <<>> THEN <<>>
  ELSE <<DecodeSequence(SubSeq(bytes, 1, SequenceLength(bytes[1])))>>
         \o Utf8Decode(SubSeq(bytes, SequenceLength(bytes[1]) + 1, Len(bytes)))

\* The text comes back unchanged from UTF-8 encode and decode (a run comes
\* back unchanged iff its base character does).
RoundTrips(str) ==
  /\ Utf8Decodes(EncodeString(str))
  /\ Utf8Decode(EncodeString(str)) = BaseString(str)

\* C13 (as stated): for content that is not blank, the report holds the
\* line-0 encoding Warning iff the content does not come back unchanged from
\* UTF-8 encode and decode; content with an unpaired surrogate gets it.
C13_EncodingWarningIffNoRoundTrip ==
  (returned # <<>> /\ ~Blank(doc)) =>
    ((Finding(0, MsgEncoding, "warning") \in Range(Report.warnings))
       <=> ~RoundTrips(doc))

----------------------------------------------------------------------------
(* SpecFormat: formatValidationResults on any ValidationResult, also one    *)
(* that validate never returns.                                             *)

MaxFindings == 2

SampleErrors ==
  { Finding(0, MsgNoUserAgent, "error"),
    Finding(1, MsgNoColon, "error"),
    Finding(12, MsgMustFollow(Allow), "error") }
SampleWarnings ==
  { Finding(0, MsgTooLarge, "warning"),
    Finding(3, MsgUnknown(<<"x">>), "warning"),
    Finding(10, MsgPathSlash, "warning") }

SampleResults ==
  [isValid : BOOLEAN,
   errors : SeqsUpTo(SampleErrors, MaxFindings),
   warnings : SeqsUpTo(SampleWarnings, MaxFindings)]

InitFormat ==
  /\ doc = <<>>
  /\ returned \in {<<result>> : result \in SampleResults}
  /\ scan = NoScan
  /\ kept = <<>>
  /\ lintResult = <<>>
  /\ output = <<>>
  /\ mounted = "no"
  /\ onValidation = FALSE
  /\ validationLog = <<>>
  /\ changeLog = <<>>

FormatCall ==
  /\ returned # <<>>
  /\ output = <<>>
  /\ output' = <<formatValidationResults(returned[1])>>
  /\ UNCHANGED <<doc, returned, scan, kept, lintResult, mounted, onValidation,
                 validationLog, changeLog>>

NextFormat == FormatCall

SpecFormat == InitFormat /\ [][NextFormat]_vars

\* The decimal numerals of the sample findings' line numbers.
Numeral(n) ==
  CASE n = 0 -> <<"0">>
    [] n = 1 -> <<"1">>
    [] n = 3 -> <<"3">>
    [] n = 10 -> <<"1", "0">>
    [] n = 12 -> <<"1", "2">>

EntryLines(findings) ==
  [i \in 1..Len(findings) |->
     <<"  Line ">> \o Numeral(findings[i].line) \o <<": ">> \o findings[i].message]

\* C10: the success message iff isValid and no warnings; otherwise an
\* 'Errors:' section iff errors is non-empty, then a 'Warnings:' section iff
\* warnings is non-empty, one blank line between them iff both are present,
\* each with one 'Line <n>: <message>' entry per finding in input order.
C10_FormatSections ==
  output # <<>> =>
    LET plain == Report.isValid /\ Report.warnings = <<>>
        errorLines == IF Report.errors # <<>>
                      THEN <<<<"Errors:">>>> \o EntryLines(Report.errors) ELSE <<>>
        warningLines == IF Report.warnings # <<>>
                        THEN <<<<"Warnings:">>>> \o EntryLines(Report.warnings)
                        ELSE <<>>
        blank == IF Report.errors # <<>> /\ Report.warnings # <<>>
                 THEN <<<<>>>> ELSE <<>>
    IN /\ (output[1] = MsgSuccess) <=> plain
       /\ ~plain =>
            Split(output[1]) = errorLines \o blank \o warningLines \o <<<<>>>>

\* C10 witness: a result with errors and warnings was formatted.
C10_Witness ==
  /\ output # <<>>
  /\ Len(Report.errors) = 2 /\ Len(Report.warnings) = 2
  /\ Report.errors[1].line = 12

----------------------------------------------------------------------------
(* SpecCalls: a sequence of validate calls.  The validator object has only  *)
(* its two read-only directive sets, so a call through validateRobotsTxt    *)
(* (a new object) and a call on an existing object are the same step.  One  *)
(* earlier call is remembered, with whether another content was validated   *)
(* since.                                                                   *)

CallInputs ==
  { <<>> } \cup CoreLines \cup
  { Line(Allow, <<>>),
    Line(Host, <<"x">>),
    Line(CrawlDelay, <<"x">>),
    <<SpaceRun>>,
    Join(<<Line(UserAgent, <<"*">>), Line(Disallow, <<"/">>)>>),
    Join(<<Line(Disallow, <<"/">>), Line(UserAgent, <<"*">>)>>) }

InitCalls ==
  /\ doc = <<>>
  /\ returned = <<>>
  /\ scan = NoScan
  /\ kept = <<>>
  /\ lintResult = <<>>
  /\ output = <<>>
  /\ mounted = "no"
  /\ onValidation = FALSE
  /\ validationLog = <<>>
  /\ changeLog = <<>>

ValidateAgain(content, remember) ==
  /\ doc' = content
  /\ returned' = <<validateRobotsTxt(content)>>
  /\ scan' = ScanLocals(content)
  /\ kept' = IF remember /\ returned # <<>>
             THEN <<[content |-> doc, report |-> returned[1],
                     others |-> content # doc]>>
             ELSE IF kept # <<>>
             THEN <<[kept[1] EXCEPT !.others = @ \/ content # kept[1].content]>>
             ELSE kept
  /\ UNCHANGED <<lintResult, output, mounted, onValidation, validationLog,
                 changeLog>>

NextCalls ==
  \E content \in CallInputs : \E remember \in BOOLEAN :
    ValidateAgain(content, remember)

SpecCalls == InitCalls /\ [][NextCalls]_vars

----------------------------------------------------------------------------
(* SpecEditor: the RobotsTxtEditor component.  The effect mounts the view   *)
(* on initialValue and reports its validity; every transaction that changes *)
(* the document runs the update listener; the linter runs on the current    *)
(* document.  A transaction that leaves the document alone does nothing.    *)

MaxEditorLines == 1
MaxLog == 3

EditorDocs == DocsOver(CoreLines, MaxEditorLines)

InitEditor ==
  /\ doc \in EditorDocs
  /\ returned = <<>>
  /\ scan = NoScan
  /\ kept = <<>>
  /\ lintResult = <<>>
  /\ output = <<>>
  /\ mounted = "no"
  /\ onValidation \in BOOLEAN
  /\ validationLog = <<>>
  /\ changeLog = <<>>

Mount ==
  /\ mounted = "no"
  /\ mounted' = "yes"
  /\ validationLog' = IF onValidation
                      THEN <<validateRobotsTxt(doc).isValid>> ELSE <<>>
  /\ UNCHANGED <<doc, returned, scan, kept, lintResult, output, onValidation,
                 changeLog>>

UpdateListener(newValue) ==
  /\ mounted = "yes"
  /\ newValue # doc
  /\ Len(validationLog) < MaxLog
  /\ doc' = newValue
  /\ changeLog' = <<newValue>>
  /\ validationLog' = IF onValidation
                      THEN Append(validationLog, validateRobotsTxt(newValue).isValid)
                      ELSE validationLog
  /\ lintResult' = <<>>
  /\ UNCHANGED <<returned, scan, kept, output, mounted, onValidation>>

EditorLint ==
  /\ mounted = "yes"
  /\ lintResult = <<>>
  /\ lintResult' = <<robotsTxtLinter(doc)>>
  /\ UNCHANGED <<doc, returned, scan, kept, output, mounted, onValidation,
                 validationLog, changeLog>>

Unmount ==
  /\ mounted = "yes"
  /\ mounted' = "destroyed"
  /\ UNCHANGED <<doc, returned, scan, kept, lintResult, output, onValidation,
                 validationLog, changeLog>>

NextEditor ==
  \/ Mount
  \/ \E newValue \in EditorDocs : UpdateListener(newValue)
  \/ EditorLint
  \/ Unmount

SpecEditor == InitEditor /\ [][NextEditor]_vars

\* C8 (as stated): after the report at mount, an edit calls onValidation
\* exactly when the validity of the new content differs from the value last
\* passed to onValidation.
C8_CalledOnlyOnChange ==
  [][(doc' # doc /\ validationLog # <<>>) =>
       ((Len(validationLog') = Len(validationLog) + 1)
          <=> (validate(doc').isValid # validationLog[Len(validationLog)]))]_vars

====
